---- MODULE Spec2Model ----
(***************************************************************************)
(* Model of arangod/Network/Methods.cpp (sendRequest, sendRequestRetry and *)
(* RequestsState) together with the pool pointer of NetworkFeature.cpp.    *)
(*                                                                         *)
(* One logical request is followed from its call to its completion.  Time  *)
(* is the steady clock in units of 100 ms.  The transport (fuerte), the    *)
(* destination resolver, the scheduler's timer and the application server  *)
(* are the environment: their results are drawn nondeterministically.      *)
(* fuerte::Error values are modelled by the name of their ErrorCondition;  *)
(* the code only passes them through or switches on them.                  *)
(***************************************************************************)
EXTENDS Integers, Sequences, FiniteSets, TLC

\* ---------------------------------------------------------------- bounds
MaxTime == 12
MaxTimeout == 10
Timeouts == {-1, 0, 5, MaxTimeout}
\* the clock is observed in steps of one unit, or in long steps that let a
\* request live past the 10 s clamp of the backoff
TickLens == {1, 25}
Payloads == {"body"}

\* ------------------------------------------------------------- constants
\* std::chrono::milliseconds(200) and std::chrono::seconds(10), in 100 ms
BackoffMin == 2
BackoffMax == 100

StatusOK == 200
StatusCreated == 201
StatusAccepted == 202
StatusNoContent == 204
StatusNotFound == 404
TRI_ERROR_ARANGO_DATA_SOURCE_NOT_FOUND == 1203

\* the minimums of validateOptions
MinOpenConnections == 8
MinConnectionTtl == 10000

\* ------------------------------------------------------- transport values
nullptr == [status |-> 0, errorNum |-> 0]

Responses ==
  {[status |-> s, errorNum |-> 0] :
      s \in {StatusOK, StatusCreated, StatusAccepted, StatusNoContent}}
  \cup {[status |-> s, errorNum |-> c] :
      s \in {StatusNotFound, 500}, c \in {0, 1202, 1203}}

Errors == {"NoError", "CouldNotConnect", "Timeout", "WriteError", "Canceled"}

\* what the transport may hand to the completion callback of one send
Completions ==
  {[err |-> "NoError", res |-> r] : r \in Responses}
  \cup {[err |-> e, res |-> nullptr] : e \in Errors \ {"NoError"}}

VARIABLES
  now,            \* std::chrono::steady_clock::now()
  stopping,       \* ApplicationServer::isStopping()
  poolPtr,        \* NetworkFeature::_poolPtr: "null" or "pool"
  poolAlive,      \* NetworkFeature::_pool holds a ConnectionPool
  poolShutdown,   \* ConnectionPool::shutdown() has run
  nfPc,           \* position of the thread in NetworkFeature::beginShutdown
  mode,           \* "none", "single" (sendRequest) or "retry" (sendRequestRetry)
  retryNotFound,  \* RequestsState::_retryOnCollNotFound
  startTime,      \* RequestsState::_startTime
  endTime,        \* RequestsState::_endTime
  dispatch,       \* "lease": the dispatching thread holds `pool`, before the lease
  inFlight,       \* sends handed to the transport whose callback is pending
  timerArmed,     \* _timer has a pending async_wait
  timerDue,       \* expiry of _timer
  cbCount,        \* number of invocations of _cb / promise->setValue
  result,         \* the Response last delivered
  attempts,       \* entries into the dispatch code
  entry,          \* what the last entry observed
  resolveCalls,   \* calls of resolveDestination
  lastResolve,    \* result of the last resolveDestination call
  leaseCalls,     \* calls of leaseConnection
  sendCalls,      \* calls of connection->sendRequest
  outcomes,       \* the completions delivered by the transport, in order
  assertFailed,   \* TRI_ASSERT(timeout.count() > 0) was evaluated to false
  timerAborted,   \* an async_wait completed with an error code
  tickLen,        \* the step of the clock in this run
  backoff,        \* the tryAgainAfter computed last, and how many were
  wire,           \* req->timeout() of the last request built, in ms
  payload,        \* RequestsState::_payload / the payload argument
  sentPayloads,   \* the payloads handed to the transport, in order
  leases,         \* ConnectionPool::Ref leases that are held
  atStop,         \* a send was in flight when the server began to stop
  numIOThreads,        \* NetworkFeature::_numIOThreads
  maxOpenConnections,  \* NetworkFeature::_maxOpenConnections
  connectionTtlMilli,  \* NetworkFeature::_connectionTtlMilli
  validated            \* NetworkFeature::validateOptions has run

envVars == <<now, stopping, poolPtr, poolAlive, poolShutdown, nfPc>>
poolVars == <<poolPtr, poolAlive, poolShutdown, nfPc>>
reqVars == <<mode, retryNotFound, startTime, endTime>>
timerVars == <<timerArmed, timerDue>>
cbVars == <<cbCount, result>>
entryVars == <<attempts, entry, resolveCalls, lastResolve, assertFailed>>
sendVars == <<leaseCalls, sendCalls>>
buildVars == <<wire, payload, sentPayloads>>
optionVars == <<numIOThreads, maxOpenConnections, connectionTtlMilli,
                validated>>
cfgVars == <<tickLen, optionVars>>

vars == <<now, stopping, poolPtr, poolAlive, poolShutdown, nfPc,
          mode, retryNotFound, startTime, endTime, dispatch, inFlight,
          timerArmed, timerDue, cbCount, result, attempts, entry,
          resolveCalls, lastResolve, leaseCalls, sendCalls, outcomes,
          assertFailed, timerAborted, tickLen, backoff, wire, payload,
          sentPayloads, leases, atStop, numIOThreads, maxOpenConnections,
          connectionTtlMilli, validated>>

\* the state of the dispatch layer before any request
InitRequest ==
  /\ now = 0
  /\ stopping = FALSE
  /\ poolPtr = "null"
  /\ poolAlive = FALSE
  /\ poolShutdown = FALSE
  /\ nfPc = "idle"
  /\ mode = "none"
  /\ retryNotFound = FALSE
  /\ startTime = 0
  /\ endTime = 0
  /\ dispatch = "none"
  /\ inFlight = 0
  /\ timerArmed = FALSE
  /\ timerDue = 0
  /\ cbCount = 0
  /\ result = [err |-> "none", res |-> nullptr]
  /\ attempts = 0
  /\ entry = [late |-> FALSE, stopping |-> FALSE, pool |-> "null",
              torn |-> FALSE]
  /\ resolveCalls = 0
  /\ lastResolve = "none"
  /\ leaseCalls = 0
  /\ sendCalls = 0
  /\ outcomes = <<>>
  /\ assertFailed = FALSE
  /\ timerAborted = FALSE
  /\ tickLen \in TickLens
  /\ backoff = [n |-> 0, delay |-> 0]
  /\ wire = 0
  /\ payload = ""
  /\ sentPayloads = <<>>
  /\ leases = 0
  /\ atStop = FALSE

\* the NetworkFeature as constructed; validateOptions leaves these default
\* values as they are
Init ==
  /\ InitRequest
  /\ numIOThreads = 1
  /\ maxOpenConnections = 128
  /\ connectionTtlMilli = 5 * 60 * 1000
  /\ validated = TRUE

\* the NetworkFeature after the options were parsed, before validateOptions
InitOptions ==
  /\ InitRequest
  /\ numIOThreads \in {0, 1, 2, 8, 9, 64}
  /\ maxOpenConnections \in {0, 1, 7, 8, 9, 128}
  /\ connectionTtlMilli \in {0, 9999, 10000, 10001, 300000}
  /\ validated = FALSE

\* ------------------------------------------------------- pure functions
\* network::errorCodeFromBody: the application error number of the body
errorCodeFromBody(res) == res.errorNum

IsSuccessStatus_withoutOK(s) ==
  s \in {StatusCreated, StatusAccepted, StatusNoContent}

\* handleResponse: the four success statuses
IsSuccessStatus(s) ==
  s \in {StatusOK, StatusCreated, StatusAccepted, StatusNoContent}

IsRetryableNotFound_anyNotFound(res, retryOnCollNotFound) ==
  res.status = StatusNotFound

\* handleResponse: the Not-Found response that is retried
IsRetryableNotFound(res, retryOnCollNotFound) ==
  /\ res.status = StatusNotFound
  /\ retryOnCollNotFound
  /\ TRI_ERROR_ARANGO_DATA_SOURCE_NOT_FOUND = errorCodeFromBody(res)

Classify_retryAllErrors(err, res, retryOnCollNotFound) ==
  IF err = "NoError"
    THEN IF IsSuccessStatus(res.status) THEN "success"
         ELSE IF IsRetryableNotFound(res, retryOnCollNotFound) THEN "retry"
         ELSE "failed"
  ELSE "retry"

\* handleResponse: the switch over the transport error and the status.
\*   "success" -> _cb(NoError, res); "failed" -> _cb(Canceled, res);
\*   "retry"   -> the CouldNotConnect/Timeout case (also reached by the
\*                fallthrough); "proper" -> the default case
Classify(err, res, retryOnCollNotFound) ==
  IF err = "NoError"
    THEN IF IsSuccessStatus(res.status) THEN "success"
         ELSE IF IsRetryableNotFound(res, retryOnCollNotFound) THEN "retry"
         ELSE "failed"
  ELSE IF err \in {"CouldNotConnect", "Timeout"} THEN "retry"
  ELSE "proper"

tryAgainAfter_noLowerClamp(elapsed) ==
  IF elapsed > BackoffMax THEN BackoffMax ELSE elapsed

tryAgainAfter_noUpperClamp(elapsed) ==
  IF elapsed < BackoffMin THEN BackoffMin ELSE elapsed

\* handleResponse: tryAgainAfter, the elapsed time clamped to [200 ms, 10 s]
tryAgainAfter(elapsed) ==
  IF elapsed < BackoffMin THEN BackoffMin
  ELSE IF elapsed > BackoffMax THEN BackoffMax
  ELSE elapsed

\* handleResponse: dueTime = now() + tryAgainAfter
DueTime(t, st) == t + tryAgainAfter(t - st)

\* handleResponse: the Response handed to _cb for each class
Delivered(class, err, res) ==
  IF class = "success" THEN [err |-> "NoError", res |-> res]
  ELSE IF class = "failed" THEN [err |-> "Canceled", res |-> res]
  ELSE [err |-> err, res |-> res]

\* handleResponse: the paths that invoke _cb
Delivers(class, due, et) ==
  \/ class \in {"success", "failed", "proper"}
  \/ class = "retry" /\ due >= et

Schedules_missingBreak(class, due, et) ==
  class \in {"retry", "failed"} /\ ~(due >= et)

Schedules_dueAtDeadline(class, due, et) ==
  class = "retry" /\ ~(due > et)

\* handleResponse: the path that reaches _timer->async_wait
Schedules(class, due, et) ==
  class = "retry" /\ ~(due >= et)

Min(a, b) == IF a < b THEN a ELSE b
Max(a, b) == IF a > b THEN a ELSE b

ClampToMinimum_inverted(v, lo) == IF v > lo THEN lo ELSE v

\* validateOptions: if (v < lo) { v = lo; }
ClampToMinimum(v, lo) == IF v < lo THEN lo ELSE v

\* validateOptions: std::min<uint64_t>(1, std::max<uint64_t>(8, n))
ClampIOThreads(n) == Min(1, Max(8, n))

\* std::chrono::duration_cast<std::chrono::milliseconds>(d).count() of a
\* duration of d units of 100 ms
ToMilliseconds(d) == d * 100

PayloadIsMoved_always(m) == TRUE

\* whether the payload is handed to prepareRequest as an rvalue:
\* std::move(payload) in sendRequest, the lvalue _payload in RequestsState
PayloadIsMoved(m) == m = "single"

\* prepareRequest / fuerte::createRequest(..., std::forward<T>(payload)):
\* the request gets the bytes; an rvalue source is left empty
ForwardPayload(src, moved) ==
  [sent |-> src, left |-> IF moved THEN "" ELSE src]

\* the timeout handed to prepareRequest by RequestsState::sendRequest:
\* duration_cast<milliseconds>(_endTime - _startTime)
WireTimeout(st, et) == ToMilliseconds(et - st)

LeasesAfterCallback_kept(held) == held

\* the completion lambda owns the Ref of its attempt and is destroyed once
\* it has run
LeasesAfterCallback(held) == held - 1

AttemptOutcome_noDeadlineCheck(late, isStopping, resolveOk, pool) ==
  IF isStopping THEN "timeout"
  ELSE IF ~resolveOk THEN "unresolved"
  ELSE IF pool = "null" THEN "nopool"
  ELSE "lease"

AttemptOutcome_noResolveCheck(late, isStopping, resolveOk, pool) ==
  IF late \/ isStopping THEN "timeout"
  ELSE IF pool = "null" THEN "nopool"
  ELSE "lease"

AttemptOutcome_noStoppingCheck(late, isStopping, resolveOk, pool) ==
  IF late THEN "timeout"
  ELSE IF ~resolveOk THEN "unresolved"
  ELSE IF pool = "null" THEN "nopool"
  ELSE "lease"

\* RequestsState::sendRequest: the checks before the lease, in code order
AttemptOutcome(late, isStopping, resolveOk, pool) ==
  IF late \/ isStopping THEN "timeout"
  ELSE IF ~resolveOk THEN "unresolved"
  ELSE IF pool = "null" THEN "nopool"
  ELSE "lease"

SingleOutcome_noPoolCheck(pool, resolveOk) ==
  IF ~resolveOk THEN "unresolved"
  ELSE "lease"

\* sendRequest (single attempt): the checks before the lease, in code order
SingleOutcome(pool, resolveOk) ==
  IF pool = "null" THEN "nopool"
  ELSE IF ~resolveOk THEN "unresolved"
  ELSE "lease"

\* the Response of a dispatch that ends before the lease
EarlyResponse(out) ==
  IF out = "timeout" THEN [err |-> "Timeout", res |-> nullptr]
  ELSE [err |-> "Canceled", res |-> nullptr]

\* --------------------------------------------------------------- actions
\* _cb(Response{...}) / promise->setValue(...)
cb(r) ==
  /\ cbCount' = cbCount + 1
  /\ result' = r

\* the steady clock advances; only the time since the call is observed
Tick ==
  /\ mode # "none"
  /\ now + tickLen <= MaxTime * tickLen
  /\ now' = now + tickLen
  /\ UNCHANGED <<stopping, poolVars, reqVars, dispatch, inFlight, timerVars,
                 cbVars, entryVars, sendVars, outcomes, timerAborted>>
  /\ UNCHANGED <<cfgVars, backoff, buildVars, leases, atStop>>

\* the application server enters its stopping state
ServerStop ==
  /\ ~stopping
  /\ stopping' = TRUE
  /\ atStop' = (inFlight > 0)
  /\ UNCHANGED <<now, poolVars, reqVars, dispatch, inFlight, timerVars,
                 cbVars, entryVars, sendVars, outcomes, timerAborted>>
  /\ UNCHANGED <<cfgVars, backoff, buildVars, leases>>

\* NetworkFeature::prepare; run by the application server during startup
prepare ==
  /\ ~poolAlive
  /\ ~stopping
  /\ nfPc = "idle"
  /\ poolAlive' = TRUE
  /\ poolPtr' = "pool"
  /\ UNCHANGED <<now, stopping, poolShutdown, nfPc, reqVars, dispatch,
                 inFlight, timerVars, cbVars, entryVars, sendVars, outcomes,
                 timerAborted>>
  /\ UNCHANGED <<cfgVars, backoff, buildVars, leases, atStop>>

\* NetworkFeature::beginShutdown, first statement: _poolPtr.store(nullptr).
\* The application server calls it once, after it has started to stop.
beginShutdownStore ==
  /\ stopping
  /\ nfPc = "idle"
  /\ nfPc' = "stored"
  /\ poolPtr' = "null"
  /\ UNCHANGED <<now, stopping, poolAlive, poolShutdown, reqVars, dispatch,
                 inFlight, timerVars, cbVars, entryVars, sendVars, outcomes,
                 timerAborted>>
  /\ UNCHANGED <<cfgVars, backoff, buildVars, leases, atStop>>

\* NetworkFeature::beginShutdown, second statement: if (_pool) shutdown()
beginShutdownPool ==
  /\ nfPc = "stored"
  /\ nfPc' = "done"
  /\ poolShutdown' = poolAlive
  /\ UNCHANGED <<now, stopping, poolPtr, poolAlive, reqVars, dispatch,
                 inFlight, timerVars, cbVars, entryVars, sendVars, outcomes,
                 timerAborted>>
  /\ UNCHANGED <<cfgVars, backoff, buildVars, leases, atStop>>

\* sendRequest (single attempt) up to the lease
sendRequest ==
  /\ mode = "none"
  /\ \E resolveOk \in BOOLEAN, body \in Payloads :
       LET out == SingleOutcome(poolPtr, resolveOk) IN
       /\ mode' = "single"
       /\ payload' = body
       /\ attempts' = attempts + 1
       /\ entry' = [late |-> FALSE, stopping |-> stopping, pool |-> poolPtr,
                    torn |-> nfPc = "done"]
       /\ resolveCalls' = IF out = "nopool" THEN resolveCalls
                          ELSE resolveCalls + 1
       /\ lastResolve' = IF out = "nopool" THEN lastResolve
                         ELSE IF resolveOk THEN "ok" ELSE "failed"
       /\ IF out = "lease"
            THEN dispatch' = "lease" /\ UNCHANGED cbVars
            ELSE dispatch' = "none" /\ cb(EarlyResponse(out))
  /\ UNCHANGED <<envVars, retryNotFound, startTime, endTime, inFlight,
                 timerVars, sendVars, outcomes, assertFailed, timerAborted>>
  /\ UNCHANGED <<cfgVars, backoff, wire, sentPayloads, leases, atStop>>

\* RequestsState::sendRequest up to the lease, for a state whose start time
\* and deadline are st and et
Attempt(st, et, resolveOk) ==
  LET out == AttemptOutcome(now > et, stopping, resolveOk, poolPtr) IN
  /\ attempts' = attempts + 1
  /\ entry' = [late |-> now > et, stopping |-> stopping, pool |-> poolPtr,
               torn |-> nfPc = "done"]
  /\ resolveCalls' = IF out = "timeout" THEN resolveCalls
                     ELSE resolveCalls + 1
  /\ lastResolve' = IF out = "timeout" THEN lastResolve
                    ELSE IF resolveOk THEN "ok" ELSE "failed"
  /\ IF out = "lease"
       THEN /\ dispatch' = "lease"
            /\ assertFailed' = (assertFailed \/ ~(ToMilliseconds(et - st) > 0))
            /\ UNCHANGED cbVars
       ELSE /\ dispatch' = "none"
            /\ cb(EarlyResponse(out))
            /\ UNCHANGED assertFailed

\* sendRequestRetry: builds the RequestsState and runs its first attempt
sendRequestRetry ==
  /\ mode = "none"
  /\ \E t \in Timeouts, rnf \in BOOLEAN, resolveOk \in BOOLEAN,
        body \in Payloads :
       LET timeout == t * tickLen IN
       /\ mode' = "retry"
       /\ retryNotFound' = rnf
       /\ payload' = body
       /\ startTime' = now
       /\ endTime' = now + timeout
       /\ Attempt(now, now + timeout, resolveOk)
  /\ UNCHANGED <<envVars, inFlight, timerVars, sendVars, outcomes,
                 timerAborted>>
  /\ UNCHANGED <<cfgVars, backoff, wire, sentPayloads, leases, atStop>>

IssueSend_speculativeTimer ==
  /\ leaseCalls' = leaseCalls + 1
  /\ sendCalls' = sendCalls + 1
  /\ inFlight' = inFlight + 1
  /\ timerArmed' = TRUE
  /\ timerDue' = now + BackoffMin

\* pool->leaseConnection, prepareRequest and connection->sendRequest
IssueSend ==
  /\ leaseCalls' = leaseCalls + 1
  /\ sendCalls' = sendCalls + 1
  /\ inFlight' = inFlight + 1
  /\ UNCHANGED timerVars

\* the dispatching thread goes on from the pool check to the send
leaseAndSend ==
  /\ dispatch = "lease"
  /\ dispatch' = "none"
  /\ IssueSend
  /\ leases' = leases + 1
  /\ LET fwd == ForwardPayload(payload, PayloadIsMoved(mode)) IN
       /\ sentPayloads' = Append(sentPayloads, fwd.sent)
       /\ payload' = fwd.left
  /\ wire' = IF mode = "retry" THEN WireTimeout(startTime, endTime)
               ELSE wire
  /\ UNCHANGED <<envVars, reqVars, cbVars, entryVars, outcomes, timerAborted>>
  /\ UNCHANGED <<cfgVars, backoff, atStop>>

\* the completion callback of the single-attempt sendRequest
singleCallback ==
  /\ mode = "single"
  /\ inFlight > 0
  /\ \E c \in Completions :
       /\ outcomes' = Append(outcomes, c)
       /\ cb([err |-> c.err, res |-> c.res])
  /\ inFlight' = inFlight - 1
  /\ leases' = LeasesAfterCallback(leases)
  /\ UNCHANGED <<envVars, reqVars, dispatch, timerVars, entryVars, sendVars,
                 timerAborted>>
  /\ UNCHANGED <<cfgVars, backoff, buildVars, atStop>>

\* RequestsState::handleResponse
handleResponse(err, res) ==
  LET class == Classify(err, res, retryNotFound)
      due == DueTime(now, startTime)
  IN /\ IF Delivers(class, due, endTime)
          THEN cb(Delivered(class, err, res))
          ELSE UNCHANGED cbVars
     /\ IF Schedules(class, due, endTime)
          THEN timerArmed' = TRUE /\ timerDue' = due
          ELSE UNCHANGED timerVars
     /\ IF class = "retry"
          THEN backoff' = [n |-> backoff.n + 1,
                           delay |-> tryAgainAfter(now - startTime)]
          ELSE UNCHANGED backoff

\* the completion callback of a send of the RequestsState
retryCallback ==
  /\ mode = "retry"
  /\ inFlight > 0
  /\ \E c \in Completions :
       /\ outcomes' = Append(outcomes, c)
       /\ handleResponse(c.err, c.res)
  /\ inFlight' = inFlight - 1
  /\ leases' = LeasesAfterCallback(leases)
  /\ UNCHANGED <<envVars, reqVars, dispatch, entryVars, sendVars,
                 timerAborted>>
  /\ UNCHANGED <<cfgVars, buildVars, atStop>>

\* the async_wait handler runs with no error code: sendRequest()
timerFired ==
  /\ timerArmed
  /\ now >= timerDue
  /\ timerArmed' = FALSE
  /\ \E resolveOk \in BOOLEAN : Attempt(startTime, endTime, resolveOk)
  /\ UNCHANGED <<envVars, reqVars, inFlight, timerDue, sendVars, outcomes,
                 timerAborted>>
  /\ UNCHANGED <<cfgVars, backoff, buildVars, leases, atStop>>

\* the async_wait handler runs with an error code (the scheduler stops):
\* if (!ec) is false and the handler does nothing
timerCanceled ==
  /\ timerArmed
  /\ stopping
  /\ timerArmed' = FALSE
  /\ timerAborted' = TRUE
  /\ UNCHANGED <<envVars, reqVars, dispatch, inFlight, timerDue, cbVars,
                 entryVars, sendVars, outcomes>>
  /\ UNCHANGED <<cfgVars, backoff, buildVars, leases, atStop>>

\* NetworkFeature::validateOptions
validateOptions ==
  /\ ~validated
  /\ validated' = TRUE
  /\ numIOThreads' = ClampIOThreads(numIOThreads)
  /\ maxOpenConnections' = ClampToMinimum(maxOpenConnections, MinOpenConnections)
  /\ connectionTtlMilli' = ClampToMinimum(connectionTtlMilli, MinConnectionTtl)
  /\ UNCHANGED <<envVars, reqVars, dispatch, inFlight, timerVars, cbVars,
                 entryVars, sendVars, outcomes, timerAborted, tickLen,
                 backoff, buildVars, leases, atStop>>

Next ==
  \/ Tick
  \/ ServerStop
  \/ prepare
  \/ beginShutdownStore
  \/ beginShutdownPool
  \/ sendRequest
  \/ sendRequestRetry
  \/ leaseAndSend
  \/ singleCallback
  \/ retryCallback
  \/ timerFired
  \/ timerCanceled

Spec == Init /\ [][Next]_vars

\* the option handling of the NetworkFeature over its configured inputs
NextOptions == validateOptions

SpecOptions == InitOptions /\ [][NextOptions]_vars

\* ---------------------------------------------------------------- claims
\* the last completion the transport delivered
LastOutcome == outcomes[Len(outcomes)]

\* C1: the completion callback of a request is invoked at most once.
C1_CallbackAtMostOnce == cbCount <= 1

\* C1 witness: a retrying request fulfilled after more than one send
C1_Witness == mode = "retry" /\ sendCalls >= 2 /\ cbCount = 1

\* C2 (as claimed): once every send has completed and every timer wait has
\* completed, a retrying request has invoked its callback.
C2_CallbackWhenQuiescent ==
  (mode = "retry" /\ dispatch = "none" /\ inFlight = 0 /\ ~timerArmed)
    => cbCount >= 1

\* C3: never two sends in flight, never a send in flight together with an
\* armed timer, and the timer is armed only when every send issued so far
\* has had its completion delivered.
C3_OneOutstandingOperation ==
  /\ inFlight + (IF timerArmed THEN 1 ELSE 0) <= 1
  /\ timerArmed => (sendCalls >= 1 /\ Len(outcomes) = sendCalls)

\* C3 witness: the timer armed after the completion of a second send
C3_Witness == timerArmed /\ sendCalls >= 2 /\ inFlight = 0

\* C4: an attempt of a retrying request that begins after the deadline
\* delivers Timeout and makes no resolution, no lease and no send.
C4_DeadlinePassed ==
  [][(attempts' = attempts + 1 /\ mode' = "retry" /\ entry'.late)
       => /\ cbCount' = cbCount + 1
          /\ result' = [err |-> "Timeout", res |-> nullptr]
          /\ resolveCalls' = resolveCalls
          /\ leaseCalls' = leaseCalls
          /\ sendCalls' = sendCalls
          /\ inFlight' = inFlight
          /\ dispatch' = "none"]_vars

\* C4 witness: a re-entry from the retry timer found the deadline passed
C4_Witness ==
  /\ mode = "retry" /\ attempts >= 2 /\ entry.late /\ ~entry.stopping
  /\ cbCount = 1 /\ result.err = "Timeout"

\* C5: a failed destination resolution delivers Canceled without a
\* response, and no lease, no send and no retry timer follows from it.
C5_ResolutionFailed ==
  [][(resolveCalls' = resolveCalls + 1 /\ lastResolve' = "failed")
       => /\ cbCount' = cbCount + 1
          /\ result' = [err |-> "Canceled", res |-> nullptr]
          /\ leaseCalls' = leaseCalls
          /\ sendCalls' = sendCalls
          /\ inFlight' = inFlight
          /\ dispatch' = "none"
          /\ ~timerArmed']_vars

\* C5 witness: the resolution failed on a retry
C5_Witness ==
  /\ mode = "retry" /\ attempts >= 2 /\ lastResolve = "failed"
  /\ cbCount = 1 /\ result.err = "Canceled"

\* C6 (as claimed): a dispatch that begins after the pool teardown has
\* completed delivers Canceled, with no lease and no send.
C6_TornDownCanceled ==
  [][(attempts' = attempts + 1 /\ entry'.torn)
       => /\ cbCount' = cbCount + 1
          /\ result' = [err |-> "Canceled", res |-> nullptr]
          /\ leaseCalls' = leaseCalls
          /\ sendCalls' = sendCalls
          /\ inFlight' = inFlight
          /\ dispatch' = "none"]_vars

\* C6 (amended): a dispatch that begins after the pool teardown has
\* completed makes no lease and no send; sendRequest delivers Canceled, and
\* an attempt of sendRequestRetry delivers Timeout when its deadline has
\* passed or the server is stopping, and Canceled otherwise.
C6_TornDownNoLease ==
  [][(attempts' = attempts + 1 /\ entry'.torn)
       => /\ cbCount' = cbCount + 1
          /\ result' =
               [err |-> IF mode' = "retry" /\ (entry'.late \/ entry'.stopping)
                          THEN "Timeout" ELSE "Canceled",
                res |-> nullptr]
          /\ leaseCalls' = leaseCalls
          /\ sendCalls' = sendCalls
          /\ inFlight' = inFlight
          /\ dispatch' = "none"]_vars

\* C6 witness: a single-attempt request dispatched after the teardown of a
\* pool that had been prepared
C6_Witness ==
  /\ mode = "single" /\ entry.torn /\ poolShutdown /\ attempts = 1
  /\ cbCount = 1 /\ result.err = "Canceled" /\ leaseCalls = 0

\* C7 (as claimed): a retrying request with a positive timeout whose sends
\* all completed with CouldNotConnect, and whose resolutions succeeded,
\* ends with Timeout.
C7_AllConnectFailuresTimeout ==
  (/\ mode = "retry" /\ cbCount >= 1 /\ endTime - startTime > 0
   /\ Len(outcomes) >= 1 /\ lastResolve = "ok"
   /\ \A i \in 1..Len(outcomes) : outcomes[i].err = "CouldNotConnect")
    => result.err = "Timeout"

\* C8: with retryNotFound set, a first completion Not-Found with the
\* data-source-not-found body followed by a second completion OK ends the
\* request with NoError and that response, after exactly two sends.
C8_NotFoundThenOK ==
  (/\ mode = "retry" /\ retryNotFound /\ Len(outcomes) >= 2
   /\ outcomes[1] = [err |-> "NoError",
                     res |-> [status |-> 404, errorNum |-> 1203]]
   /\ outcomes[2].err = "NoError" /\ outcomes[2].res.status = 200)
    => /\ cbCount = 1
       /\ result = [err |-> "NoError", res |-> outcomes[2].res]
       /\ sendCalls = 2 /\ attempts = 2 /\ Len(outcomes) = 2
       /\ inFlight = 0 /\ ~timerArmed /\ dispatch = "none"

\* C8 witness: the second send answered OK after a retried Not-Found
C8_Witness ==
  /\ mode = "retry" /\ retryNotFound /\ Len(outcomes) = 2
  /\ outcomes[1].res = [status |-> 404, errorNum |-> 1203]
  /\ outcomes[2].res.status = 200 /\ result.err = "NoError"

\* C9: a completion without transport error whose status is neither a
\* success status nor the retryable Not-Found ends the retrying request
\* with Canceled carrying that response; no timer, no further send.
C9_OtherStatusFails ==
  (/\ mode = "retry" /\ Len(outcomes) >= 1
   /\ LastOutcome.err = "NoError"
   /\ LastOutcome.res.status \notin {200, 201, 202, 204}
   /\ ~(/\ LastOutcome.res.status = 404 /\ retryNotFound
        /\ LastOutcome.res.errorNum = 1203))
    => /\ cbCount = 1
       /\ result = [err |-> "Canceled", res |-> LastOutcome.res]
       /\ ~timerArmed /\ inFlight = 0 /\ dispatch = "none"
       /\ sendCalls = Len(outcomes)

\* C9 witness: a Not-Found with the data-source-not-found body ended a
\* request that does not retry on Not-Found, on its second send
C9_Witness ==
  /\ mode = "retry" /\ ~retryNotFound /\ Len(outcomes) = 2
  /\ LastOutcome.res = [status |-> 404, errorNum |-> 1203]
  /\ result.err = "Canceled"

\* C10: a completion with a transport error other than NoError,
\* CouldNotConnect and Timeout ends the retrying request with exactly that
\* error; no timer, no further send.
C10_ProperErrorPassedThrough ==
  (/\ mode = "retry" /\ Len(outcomes) >= 1
   /\ LastOutcome.err \notin {"NoError", "CouldNotConnect", "Timeout"})
    => /\ cbCount = 1
       /\ result = [err |-> LastOutcome.err, res |-> LastOutcome.res]
       /\ ~timerArmed /\ inFlight = 0 /\ dispatch = "none"
       /\ sendCalls = Len(outcomes)

\* C10 witness: a write error on the second send was delivered
C10_Witness ==
  /\ mode = "retry" /\ Len(outcomes) = 2
  /\ LastOutcome.err = "WriteError" /\ result.err = "WriteError"

\* C11 (as claimed): a retrying request whose timeout assertion held
\* delivers NoError only together with a response of a success status.
C11_NoErrorOnlyOnSuccess ==
  (mode = "retry" /\ cbCount >= 1 /\ result.err = "NoError" /\ ~assertFailed)
    => result.res.status \in {200, 201, 202, 204}

\* C12: each backoff computed for a retryable completion is the time elapsed
\* since the start of the request clamped to [200 ms, 10 s], and it is not
\* smaller than the backoff computed before it.
C12_BackoffClamped ==
  [][(backoff'.n = backoff.n + 1)
       => /\ backoff'.delay =
               (IF now - startTime < 2 THEN 2
                ELSE IF now - startTime > 100 THEN 100
                ELSE now - startTime)
          /\ backoff.n >= 1 => backoff.delay <= backoff'.delay]_vars

\* C12 witness: a second backoff, clamped to 10 s, with its timer armed
C12_Witness == backoff.n >= 2 /\ backoff.delay = 100 /\ timerArmed

\* C13 (as claimed): the timeout of the request built for a retry is the
\* budget left at that time, and so smaller than the total timeout.
C13_WireTimeoutIsRemaining ==
  [][(mode = "retry" /\ sendCalls >= 1 /\ sendCalls' = sendCalls + 1)
       => /\ wire' = (endTime - now) * 100
          /\ wire' < (endTime - startTime) * 100]_vars

\* C14: every send of a request hands the same payload to the transport,
\* and the payload kept by a retrying request stays what was sent first.
C14_PayloadIdentical ==
  /\ \A i \in 1..Len(sentPayloads) : sentPayloads[i] = sentPayloads[1]
  /\ (mode = "retry" /\ Len(sentPayloads) >= 1) => payload = sentPayloads[1]

\* C14 witness: the third send of a retrying request carried the payload
C14_Witness ==
  mode = "retry" /\ Len(sentPayloads) >= 3 /\ sentPayloads[3] = "body"

\* C15: the deadline of a request never changes, an armed timer is due
\* strictly before the deadline, and a retryable completion whose due time
\* is at or after the deadline arms no timer and invokes the callback.
C15_TimerBeforeDeadline ==
  [][/\ mode = "retry" => (endTime' = endTime /\ startTime' = startTime)
     /\ timerArmed' => timerDue' < endTime'
     /\ (backoff'.n = backoff.n + 1 /\ now + backoff'.delay >= endTime)
          => (~timerArmed' /\ cbCount' = cbCount + 1)]_vars

\* C15 witness: the second retryable completion came too late for a retry
C15_Witness ==
  /\ mode = "retry" /\ backoff.n >= 2 /\ ~timerArmed /\ cbCount = 1
  /\ Len(outcomes) >= 2 /\ LastOutcome.err = "CouldNotConnect"
  /\ result.err = "CouldNotConnect"

\* C16 (as claimed): no leaseConnection call is made once the teardown of
\* the pool has completed.
C16_NoLeaseAfterTeardown ==
  [][leaseCalls' = leaseCalls + 1 => nfPc # "done"]_vars

\* C17: an attempt of a retrying request that begins while the server is
\* stopping delivers Timeout or Canceled without resolution, lease or send;
\* and when the server began to stop with a send in flight, the completion
\* of that send is still handled and no further send is issued.
C17_StoppingNoFurtherSend ==
  [][/\ (attempts' = attempts + 1 /\ mode' = "retry" /\ entry'.stopping)
          => /\ cbCount' = cbCount + 1
             /\ result'.err \in {"Timeout", "Canceled"}
             /\ resolveCalls' = resolveCalls
             /\ leaseCalls' = leaseCalls
             /\ sendCalls' = sendCalls
             /\ inFlight' = inFlight
             /\ dispatch' = "none"
     /\ (mode = "retry" /\ atStop) => sendCalls' = sendCalls
     /\ (mode = "retry" /\ atStop /\ Len(outcomes') = Len(outcomes) + 1
         /\ outcomes'[Len(outcomes')].err = "NoError"
         /\ outcomes'[Len(outcomes')].res.status = 200)
          => (cbCount' = cbCount + 1 /\ result'.err = "NoError")]_vars

\* C17 witness: the server began to stop with a send in flight, the send
\* completed, and the retry that followed was ended at its start
C17_Witness ==
  /\ mode = "retry" /\ atStop /\ Len(outcomes) = sendCalls
  /\ attempts = sendCalls + 1 /\ entry.stopping /\ ~entry.late
  /\ cbCount = 1 /\ result.err = "Timeout"

\* C18: validateOptions leaves at least 8 open connections and a TTL of at
\* least 10,000 ms, and leaves a value at or above its minimum unchanged.
C18_OptionMinimums ==
  [][(~validated /\ validated')
       => /\ maxOpenConnections' >= 8
          /\ connectionTtlMilli' >= 10000
          /\ maxOpenConnections >= 8
               => maxOpenConnections' = maxOpenConnections
          /\ connectionTtlMilli >= 10000
               => connectionTtlMilli' = connectionTtlMilli]_vars

\* C18 witness: validated options, one above and one at its minimum
C18_Witness ==
  validated /\ maxOpenConnections = 9 /\ connectionTtlMilli = 10000

\* C19 (as claimed): TRI_ASSERT(timeout.count() > 0) holds whenever it is
\* evaluated.
C19_TimeoutAssertionHolds == ~assertFailed

C21_SendsBounded ==
  (mode = "retry" /\ endTime - startTime > 0)
    => sendCalls <= (endTime - startTime + 1) \div 2

\* C21 witness: a request with a timeout of 500 ms that made three sends
C21_Witness ==
  mode = "retry" /\ endTime - startTime = 5 /\ sendCalls = 3

====
